---- MODULE Spec2Model ----
(***************************************************************************)
(* Model of stocks_52week_rank.py: the StockDataProcessor (fetch, metrics, *)
(* ranking, table creation) and the run() pipeline around it.              *)
(*                                                                         *)
(* Strings are sequences of one-character strings, so that endswith,       *)
(* replace and strip act on characters.  Prices are naturals.  A value     *)
(* computed in floating point (current_pct_from_low, moving_average_200d)  *)
(* is an extended rational [n, d]: d > 0 is the reduced fraction n/d,      *)
(* d = 0 is one of the IEEE specials +inf (n = 1), -inf (n = -1) and       *)
(* NaN (n = 0).  Binary rounding error is not modelled, and the provider's *)
(* series hold prices only (no missing values).                            *)
(***************************************************************************)
EXTENDS Integers, Sequences, FiniteSets, TLC

VARIABLES
    file,        \* the ticker file: [exists, lines]
    market,      \* what the provider returns: ticker -> closing-price series
    argv,        \* run()'s arguments: [top, output]
    pc,          \* position of the caller
    tickers,     \* StockDataProcessor.tickers
    stock_data,  \* StockDataProcessor.stock_data
    ret,         \* the value returned by the last processor method called
    downloads,   \* number of yf.download calls made
    renders,     \* the renderer calls made, in order
    exit_code,   \* process exit status, -1 while running
    cause        \* why the run ended

vars == <<file, market, argv, pc, tickers, stock_data, ret, downloads, renders,
          exit_code, cause>>

----------------------------------------------------------------------------
(* Bounds *)

MaxTickers == 3
MaxTop == 3
MaxLen == 2
MaxPrice == 3
MaxTickerLen == 6
MaxLines == 2

(* Program constants *)

Window == 200

----------------------------------------------------------------------------
(* Generic helpers *)

Range(s) == {s[i] : i \in 1..Len(s)}

SeqsUpTo(S, n) == UNION {[1..k -> S] : k \in 0..n}

Min2(a, b) == IF a < b THEN a ELSE b

Max2(a, b) == IF a < b THEN b ELSE a

Abs(x) == IF x < 0 THEN -x ELSE x

RECURSIVE Gcd(_, _)
Gcd(a, b) == IF b = 0 THEN a ELSE Gcd(b, a % b)

Rep(v, n) == [i \in 1..n |-> v]

----------------------------------------------------------------------------
(* Floating-point values as extended rationals *)

NaN == [n |-> 0, d |-> 0]

PosInf == [n |-> 1, d |-> 0]

NegInf == [n |-> -1, d |-> 0]

Norm(n, d) == LET g == Gcd(Abs(n), d) IN [n |-> n \div g, d |-> d \div g]

Num(k) == [n |-> k, d |-> 1]

IsNaN(q) == q.d = 0 /\ q.n = 0

IsFinite(q) == q.d > 0

\* x / y on numpy scalars: a zero divisor gives inf or nan (with a
\* RuntimeWarning), never an exception.
TrueDivide(x, y) ==
    IF y = 0 THEN (IF x > 0 THEN PosInf ELSE IF x < 0 THEN NegInf ELSE NaN)
    ELSE IF y > 0 THEN Norm(x, y) ELSE Norm(-x, -y)

\* q * k for an integer k
Times(q, k) ==
    IF q.d = 0
    THEN (IF k = 0 \/ q.n = 0 THEN NaN
          ELSE IF (k > 0) = (q.n > 0) THEN PosInf ELSE NegInf)
    ELSE Norm(q.n * k, q.d)

\* a < b on floats: every comparison with NaN is false
Less(a, b) ==
    /\ ~IsNaN(a)
    /\ ~IsNaN(b)
    /\ IF a.d = 0 /\ b.d = 0 THEN a.n < b.n ELSE a.n * b.d < b.n * a.d

----------------------------------------------------------------------------
(* str methods *)

Whitespace == {" ", "\t", "\n"}

SA == <<".", "S", "A">>

endswith(s, suffix) ==
    /\ Len(s) >= Len(suffix)
    /\ SubSeq(s, Len(s) - Len(suffix) + 1, Len(s)) = suffix

MatchAt(s, i, old) ==
    /\ i + Len(old) - 1 <= Len(s)
    /\ SubSeq(s, i, i + Len(old) - 1) = old

\* str.replace(old, new): every non-overlapping occurrence, left to right
RECURSIVE ReplaceFrom(_, _, _, _)
ReplaceFrom(s, i, old, new) ==
    IF i > Len(s) THEN <<>>
    ELSE IF MatchAt(s, i, old) THEN new \o ReplaceFrom(s, i + Len(old), old, new)
    ELSE <<s[i]>> \o ReplaceFrom(s, i + 1, old, new)

replace(s, old, new) == ReplaceFrom(s, 1, old, new)

RECURSIVE lstrip(_)
lstrip(s) == IF s # <<>> /\ s[1] \in Whitespace THEN lstrip(Tail(s)) ELSE s

RECURSIVE rstrip(_)
rstrip(s) ==
    IF s # <<>> /\ s[Len(s)] \in Whitespace
    THEN rstrip(SubSeq(s, 1, Len(s) - 1)) ELSE s

strip(s) == rstrip(lstrip(s))

----------------------------------------------------------------------------
(* pandas Series reductions used by fetch_stock_data *)

\* s[i] + ... + s[j], summed by halves
RECURSIVE SumFrom(_, _, _)
SumFrom(s, i, j) ==
    IF i > j THEN 0
    ELSE IF i = j THEN s[i]
    ELSE LET m == (i + j) \div 2
         IN  SumFrom(s, i, m) + SumFrom(s, m + 1, j)

\* the largest of s[i], ..., s[j], for i <= j
RECURSIVE MaxFrom(_, _, _)
MaxFrom(s, i, j) ==
    IF i = j THEN s[i]
    ELSE LET m == (i + j) \div 2
         IN  Max2(MaxFrom(s, i, m), MaxFrom(s, m + 1, j))

\* the smallest of s[i], ..., s[j], for i <= j
RECURSIVE MinFrom(_, _, _)
MinFrom(s, i, j) ==
    IF i = j THEN s[i]
    ELSE LET m == (i + j) \div 2
         IN  Min2(MinFrom(s, i, m), MinFrom(s, m + 1, j))

\* ticker_data.iloc[-1]
iloc_last(ticker_data) == ticker_data[Len(ticker_data)]

series_max(ticker_data) == MaxFrom(ticker_data, 1, Len(ticker_data))

\* mutant of series_min: the minimum of ticker_data[:-1]
series_min_before_last(ticker_data) ==
    IF Len(ticker_data) = 1 THEN ticker_data[1]
    ELSE MinFrom(ticker_data, 1, Len(ticker_data) - 1)

series_min(ticker_data) == MinFrom(ticker_data, 1, Len(ticker_data))

\* mutant of rolling_mean_at: rolling(window, min_periods=1)
rolling_mean_at_min_periods(ticker_data, window, i) ==
    IF i < window THEN TrueDivide(SumFrom(ticker_data, 1, i), i)
    ELSE TrueDivide(SumFrom(ticker_data, i - window + 1, i), window)

\* element i of ticker_data.rolling(window).mean(): min_periods defaults to
\* the window, so positions with fewer than window observations are NaN
rolling_mean_at(ticker_data, window, i) ==
    IF i < window THEN NaN
    ELSE TrueDivide(SumFrom(ticker_data, i - window + 1, i), window)

\* mutant of pct_from_low: divided by the current price
pct_from_low_of_current(current_price, low_52_week) ==
    Times(TrueDivide(current_price - low_52_week, current_price), 100)

\* ((current_price - low_52_week) / low_52_week) * 100
pct_from_low(current_price, low_52_week) ==
    Times(TrueDivide(current_price - low_52_week, low_52_week), 100)

\* ticker.replace(".SA", "") if ticker.endswith(".SA") else ticker
clean_ticker(ticker) ==
    IF endswith(ticker, SA) THEN replace(ticker, SA, <<>>) ELSE ticker

\* the body of the loop of fetch_stock_data for one ticker with a non-empty
\* series: the StockInfo it appends
StockInfo(ticker, ticker_data) ==
    LET current_price == iloc_last(ticker_data)
        high_52_week == series_max(ticker_data)
        low_52_week == series_min(ticker_data)
    IN  [ticker |-> clean_ticker(ticker),
         current_price |-> current_price,
         high_52_week |-> high_52_week,
         low_52_week |-> low_52_week,
         current_pct_from_low |->
             pct_from_low(current_price, low_52_week),
         moving_average_200d |->
             rolling_mean_at(ticker_data, Window, Len(ticker_data))]

\* the for loop of fetch_stock_data from position i on.  data["Close"][ticker]
\* raises KeyError for a ticker the provider returned no column for, and
\* iloc[-1] raises IndexError on an empty series; the records appended before
\* the exception stay in the list.
RECURSIVE fetch_loop(_, _, _, _)
fetch_loop(self_tickers, data, i, acc) ==
    IF i > Len(self_tickers) THEN [stock_data |-> acc, raised |-> "none"]
    ELSE IF self_tickers[i] \notin DOMAIN data
    THEN [stock_data |-> acc, raised |-> "KeyError"]
    ELSE IF data[self_tickers[i]] = <<>>
    THEN [stock_data |-> acc, raised |-> "IndexError"]
    ELSE fetch_loop(self_tickers, data, i + 1,
                    Append(acc, StockInfo(self_tickers[i], data[self_tickers[i]])))

\* mutant of fetch_stock_data: the except block reports the error and goes on
fetch_stock_data_noexit(self_tickers, self_stock_data, download) ==
    IF download.raises
    THEN [stock_data |-> self_stock_data, raised |-> "none"]
    ELSE fetch_loop(self_tickers, download.data, 1, self_stock_data)

\* fetch_stock_data: download is the outcome of yf.download, [raises, data]
fetch_stock_data(self_tickers, self_stock_data, download) ==
    IF download.raises
    THEN [stock_data |-> self_stock_data, raised |-> "SystemExit"]
    ELSE fetch_loop(self_tickers, download.data, 1, self_stock_data)

----------------------------------------------------------------------------
(* sorted(self.stock_data, key=lambda x: x.current_pct_from_low)           *)
(* CPython's list sort on fewer than 64 elements: the leading run is found *)
(* (and reversed when strictly descending), then the remaining elements    *)
(* are placed by binary insertion.  Only key < key is ever evaluated.      *)

key(x) == x.current_pct_from_low

Reverse(s) == [i \in 1..Len(s) |-> s[Len(s) + 1 - i]]

\* last index of the run that starts at index 1, scanning from index i
RECURSIVE RunEnd(_, _, _)
RunEnd(s, i, descending) ==
    IF i > Len(s) THEN i - 1
    ELSE IF Less(key(s[i]), key(s[i - 1])) = descending
    THEN RunEnd(s, i + 1, descending)
    ELSE i - 1

count_run(s) ==
    IF Len(s) = 1 THEN [n |-> 1, descending |-> FALSE]
    ELSE LET descending == Less(key(s[2]), key(s[1]))
         IN  [n |-> RunEnd(s, 3, descending), descending |-> descending]

\* the insertion point of pivot in s[l .. r-1]
RECURSIVE BinarySearch(_, _, _, _)
BinarySearch(s, pivot, l, r) ==
    IF l >= r THEN l
    ELSE LET p == l + ((r - l) \div 2)
         IN  IF Less(key(pivot), key(s[p]))
             THEN BinarySearch(s, pivot, l, p)
             ELSE BinarySearch(s, pivot, p + 1, r)

\* binarysort: s[1 .. start-1] is sorted; place s[start], s[start+1], ...
RECURSIVE binarysort(_, _)
binarysort(s, start) ==
    IF start > Len(s) THEN s
    ELSE LET pivot == s[start]
             l == BinarySearch(s, pivot, 1, start)
         IN  binarysort(SubSeq(s, 1, l - 1) \o <<pivot>>
                            \o SubSeq(s, l, start - 1)
                            \o SubSeq(s, start + 1, Len(s)),
                        start + 1)

sorted(s) ==
    IF Len(s) < 2 THEN s
    ELSE LET run == count_run(s)
             t == IF run.descending
                  THEN Reverse(SubSeq(s, 1, run.n)) \o SubSeq(s, run.n + 1, Len(s))
                  ELSE s
         IN  binarysort(t, run.n + 1)

\* mutant of sort_stock_data: self.stock_data.sort(...), sorting in place
sort_stock_data_inplace(self_stock_data) ==
    [stock_data |-> sorted(self_stock_data), value |-> sorted(self_stock_data)]

\* sort_stock_data: the list it returns and the list it leaves in the object
sort_stock_data(self_stock_data) ==
    [stock_data |-> self_stock_data, value |-> sorted(self_stock_data)]

----------------------------------------------------------------------------
(* create_dataframe *)

\* n / d rounded to an integer, halves to even
RoundHalfEven(n, d) ==
    LET f == n \div d
        r == n % d
    IN  IF 2 * r < d THEN f
        ELSE IF 2 * r > d THEN f + 1
        ELSE IF f % 2 = 0 THEN f ELSE f + 1

\* DataFrame.round(2) on a float cell
round2(q) == IF q.d = 0 THEN q ELSE Norm(RoundHalfEven(q.n * 100, q.d), 100)

\* f"{x:.1f}%": the text as the number of tenths, or the special's name
format_pct(q) ==
    IF IsNaN(q) THEN [text |-> "nan%", tenths |-> 0]
    ELSE IF q.d = 0 THEN [text |-> IF q.n > 0 THEN "inf%" ELSE "-inf%", tenths |-> 0]
    ELSE [text |-> ".1f%", tenths |-> RoundHalfEven(q.n * 10, q.d)]

\* one row of the formatted frame: the reset index, then the record's fields
\* (integer price columns are left alone by round)
Row(index, stock) ==
    [index |-> index,
     ticker |-> stock.ticker,
     current_price |-> stock.current_price,
     high_52_week |-> stock.high_52_week,
     low_52_week |-> stock.low_52_week,
     current_pct_from_low |-> format_pct(round2(stock.current_pct_from_low)),
     moving_average_200d |-> round2(stock.moving_average_200d)]

\* mutant of head: df.loc[:top], whose label slice includes row top
head_loc(df, top) ==
    IF top >= 0 THEN SubSeq(df, 1, Min2(top + 1, Len(df)))
    ELSE SubSeq(df, 1, Max2(Len(df) + top, 0))

\* df.head(top): the first top rows, or all but the last -top rows
head(df, top) ==
    IF top >= 0 THEN SubSeq(df, 1, Min2(top, Len(df)))
    ELSE SubSeq(df, 1, Max2(Len(df) + top, 0))

create_dataframe(self_stock_data, top) ==
    LET sorted_stock_data == sort_stock_data(self_stock_data)
        df == [i \in 1..Len(sorted_stock_data.value) |->
                  Row(i - 1, sorted_stock_data.value[i])]
    IN  [stock_data |-> sorted_stock_data.stock_data,
         value |-> IF df = <<>> THEN df ELSE head(df, top)]

----------------------------------------------------------------------------
(* read_tickers and the renderers *)

\* [line.strip() for line in file.readlines() if line.strip()]
RECURSIVE StripLines(_)
StripLines(lines) ==
    IF lines = <<>> THEN <<>>
    ELSE IF strip(Head(lines)) # <<>>
    THEN <<strip(Head(lines))>> \o StripLines(Tail(lines))
    ELSE StripLines(Tail(lines))

\* read_tickers: sys.exit(1) when the path does not exist
read_tickers(f) ==
    IF ~f.exists THEN [raised |-> "SystemExit", value |-> <<>>]
    ELSE [raised |-> "none", value |-> StripLines(f.lines)]

\* the branch of run() that picks the renderer
renderer(output) ==
    IF output = "text" THEN "print_dataframe_as_text"
    ELSE IF output = "html" THEN "save_dataframe_as_html"
    ELSE "save_dataframe_as_image"

----------------------------------------------------------------------------
(* Input sets *)

Prices == 0..MaxPrice

Tops == -1..MaxTop

Outputs == {"text", "image", "html"}

NoRet == [op |-> "none", top |-> 0, value |-> <<>>]

NoFile == [exists |-> FALSE, lines |-> <<>>]

NoArgv == [top |-> 0, output |-> "text"]

\* what the provider may return for the requested symbols: a series for some
\* of them, no column for the others
Markets(symbols, pool) == UNION {[D -> pool] : D \in SUBSET symbols}

TickerPool == {<<"A">>, <<"B", ".", "S", "A">>, <<"C">>}

\* series for the ranking runs: empty, zero low with zero and non-zero last
\* price, ties at 0%, 50% and 100%
RankSeries == {<<>>, <<0>>, <<0, 2>>, <<2, 2>>, <<3, 2>>, <<2, 3>>, <<1, 2>>}

ShortSeries == SeqsUpTo(Prices, MaxLen)

\* series around the moving-average window: Window - 1 equal prices with at
\* most one price before them and a short series after them
LongSeries ==
    {p \o Rep(a, Window - 1) \o q :
        p \in SeqsUpTo(Prices, 1), a \in Prices, q \in ShortSeries}

MetricSeries == ShortSeries \cup LongSeries

Alphabet == {".", "S", "A", "B"}

LinePool == {<<"\n">>, <<" ", "\n">>, <<"A", "\n">>,
             <<" ", "B", ".", "S", "A", " ", "\n">>, <<"C">>}

Files == {NoFile} \cup {[exists |-> TRUE, lines |-> l] : l \in SeqsUpTo(LinePool, MaxLines)}

RunSeries == {<<0, 1>>, <<1, 2>>, <<2, 2>>}

----------------------------------------------------------------------------
(* Initial states *)

InitProcessor(tks, mkt) ==
    /\ file = NoFile
    /\ argv = NoArgv
    /\ pc = "new"
    /\ tickers = tks
    /\ market = mkt
    /\ stock_data = <<>>
    /\ ret = NoRet
    /\ downloads = 0
    /\ renders = <<>>
    /\ exit_code = -1
    /\ cause = "none"

\* a processor constructed on any list of tickers
Init ==
    \E tks \in SeqsUpTo(TickerPool, MaxTickers) :
        \E mkt \in Markets(Range(tks), RankSeries) : InitProcessor(tks, mkt)

\* a processor for one ticker, over every series of the metric set
InitMetrics ==
    \E s \in MetricSeries : InitProcessor(<<<<"A">>>>, (<<"A">> :> s))

\* a processor for one ticker, over every symbol of the alphabet
InitTicker ==
    \E t \in SeqsUpTo(Alphabet, MaxTickerLen) :
        InitProcessor(<<t>>, (t :> <<1, 2>>))

\* the start of run(output, top, tickers_file, debug_flag)
InitRun ==
    /\ file \in Files
    /\ argv \in [top : Tops, output : Outputs]
    /\ market \in Markets(Range(StripLines(file.lines)), RunSeries)
    /\ pc = "start"
    /\ tickers = <<>>
    /\ stock_data = <<>>
    /\ ret = NoRet
    /\ downloads = 0
    /\ renders = <<>>
    /\ exit_code = -1
    /\ cause = "none"

----------------------------------------------------------------------------
(* Actions *)

\* tickers = read_tickers(tickers_file)
ReadTickers ==
    /\ pc = "start"
    /\ LET r == read_tickers(file)
       IN  /\ tickers' = r.value
           /\ pc' = IF r.raised = "none" THEN "read" ELSE "exited"
           /\ exit_code' = IF r.raised = "none" THEN exit_code ELSE 1
           /\ cause' = IF r.raised = "none" THEN cause ELSE "file not found"
    /\ UNCHANGED <<file, market, argv, stock_data, ret, downloads, renders>>

\* if not tickers: sys.exit(1); stocks = StockDataProcessor(tickers)
CheckTickers ==
    /\ pc = "read"
    /\ pc' = IF tickers = <<>> THEN "exited" ELSE "new"
    /\ exit_code' = IF tickers = <<>> THEN 1 ELSE exit_code
    /\ cause' = IF tickers = <<>> THEN "no tickers" ELSE cause
    /\ stock_data' = <<>>
    /\ UNCHANGED <<file, market, argv, tickers, ret, downloads, renders>>

\* stocks.fetch_stock_data(): the download raises or returns the market data;
\* the method returns None; an exception leaving it ends the caller with
\* status 1
FetchStockData ==
    /\ pc = "new"
    /\ \E raises \in BOOLEAN :
        LET r == fetch_stock_data(tickers, stock_data,
                                  [raises |-> raises, data |-> market])
        IN  /\ stock_data' = r.stock_data
            /\ pc' = IF r.raised = "none" THEN "fetched" ELSE "exited"
            /\ exit_code' = IF r.raised = "none" THEN exit_code ELSE 1
            /\ cause' = IF r.raised = "none" THEN cause
                        ELSE IF raises THEN "download failed" ELSE r.raised
    /\ downloads' = downloads + 1
    /\ ret' = [op |-> "fetch_stock_data", top |-> 0, value |-> <<>>]
    /\ UNCHANGED <<file, market, argv, tickers, renders>>

\* stocks.sort_stock_data()
SortStockData ==
    /\ pc \in {"new", "fetched"}
    /\ LET r == sort_stock_data(stock_data)
       IN  /\ stock_data' = r.stock_data
           /\ ret' = [op |-> "sort_stock_data", top |-> 0, value |-> r.value]
    /\ UNCHANGED <<file, market, argv, pc, tickers, downloads, renders,
                   exit_code, cause>>

\* stocks.create_dataframe(top)
CreateDataframe(top) ==
    /\ pc \in {"new", "fetched"}
    /\ LET r == create_dataframe(stock_data, top)
       IN  /\ stock_data' = r.stock_data
           /\ ret' = [op |-> "create_dataframe", top |-> top, value |-> r.value]
    /\ UNCHANGED <<file, market, argv, pc, tickers, downloads, renders,
                   exit_code, cause>>

\* df = stocks.create_dataframe(top) in run()
RunCreateDataframe ==
    /\ pc = "fetched"
    /\ LET r == create_dataframe(stock_data, argv.top)
       IN  /\ stock_data' = r.stock_data
           /\ ret' = [op |-> "create_dataframe", top |-> argv.top,
                      value |-> r.value]
    /\ pc' = "df"
    /\ UNCHANGED <<file, market, argv, tickers, downloads, renders,
                   exit_code, cause>>

\* the renderer chosen by output is called with df; run() returns
Render ==
    /\ pc = "df"
    /\ renders' = Append(renders, [renderer |-> renderer(argv.output),
                                   df |-> ret.value])
    /\ pc' = "exited"
    /\ exit_code' = 0
    /\ cause' = "done"
    /\ UNCHANGED <<file, market, argv, tickers, stock_data, ret, downloads>>

\* the methods of a StockDataProcessor, called in any order
Next ==
    \/ FetchStockData
    \/ SortStockData
    \/ \E top \in Tops : CreateDataframe(top)

\* the steps of run()
NextRun ==
    \/ ReadTickers
    \/ CheckTickers
    \/ FetchStockData
    \/ RunCreateDataframe
    \/ Render

Spec == Init /\ [][Next]_vars

SpecMetrics == InitMetrics /\ [][Next]_vars

SpecTicker == InitTicker /\ [][Next]_vars

SpecRun == InitRun /\ [][NextRun]_vars

----------------------------------------------------------------------------
(* Properties *)

\* the series fetched for the i-th requested ticker
SeriesOf(i) == market[tickers[i]]

\* the records of the i-th requested tickers have been appended
Computed(i) == i \in 1..Len(stock_data)

HasSuffix(t) ==
    /\ Len(t) >= 3
    /\ t[Len(t) - 2] = "."
    /\ t[Len(t) - 1] = "S"
    /\ t[Len(t)] = "A"

\* float equality: NaN equals nothing
FloatEq(a, b) == ~IsNaN(a) /\ ~IsNaN(b) /\ a = b

Bijections(n) == {f \in [1..n -> 1..n] : \A i, j \in 1..n : f[i] = f[j] => i = j}

\* C1: sort_stock_data returns every held record exactly once, no record
\* before one with a smaller current_pct_from_low, and records with equal
\* current_pct_from_low in their order of insertion.
C1_RankedStableAscending ==
    ret.op = "sort_stock_data" =>
        /\ Len(ret.value) = Len(stock_data)
        /\ \E f \in Bijections(Len(stock_data)) :
            /\ \A i \in 1..Len(stock_data) : ret.value[i] = stock_data[f[i]]
            /\ \A i, j \in 1..Len(stock_data) :
                (i < j /\ FloatEq(key(ret.value[i]), key(ret.value[j])))
                    => f[i] < f[j]
        /\ \A i, j \in 1..Len(ret.value) :
            i < j => ~Less(key(ret.value[j]), key(ret.value[i]))

\* C2: for a positive top the table holds the first min(top, length) records
\* of the ranked sequence, in ranked order, each with its rank as index; with
\* no records held the table is empty.
C2_TopN ==
    (ret.op = "create_dataframe" /\ ret.top >= 1) =>
        LET ranked == sorted(stock_data)
            k == IF ret.top < Len(ranked) THEN ret.top ELSE Len(ranked)
        IN  /\ Len(ret.value) = k
            /\ pc # "exited"
            /\ stock_data = <<>> => ret.value = <<>>
            /\ \A i \in 1..k :
                /\ ret.value[i].index = i - 1
                /\ ret.value[i].ticker = ranked[i].ticker
                /\ ret.value[i].current_price = ranked[i].current_price
                /\ ret.value[i].high_52_week = ranked[i].high_52_week
                /\ ret.value[i].low_52_week = ranked[i].low_52_week

\* a table cut to fewer rows than there are records, whose order differs from
\* the order of insertion
C2_Witness ==
    /\ ret.op = "create_dataframe"
    /\ ret.top >= 1
    /\ Len(stock_data) > ret.top
    /\ Len(ret.value) = ret.top
    /\ ret.value[1].ticker # stock_data[1].ticker

\* C3: after fetch_stock_data the records are a mapping from requested ticker
\* to record: each requested ticker finds exactly one record, the one computed
\* from its series, and the records follow the order of the ticker list.
C3_MappingByTicker ==
    pc = "fetched" =>
        /\ \A i \in 1..Len(tickers) :
            Cardinality({j \in 1..Len(stock_data) :
                            stock_data[j].ticker = tickers[i]}) = 1
        /\ \A i \in 1..Len(tickers) : \A j \in 1..Len(stock_data) :
            stock_data[j].ticker = tickers[i] =>
                /\ stock_data[j].current_price = SeriesOf(i)[Len(SeriesOf(i))]
                /\ \A h \in 1..Len(tickers) :
                    (h < i /\ tickers[h] # tickers[i]) =>
                        \E g \in 1..(j - 1) : stock_data[g].ticker = tickers[h]

\* C4: the stored ticker is the requested one without its one trailing ".SA",
\* every other character kept, or the requested one unchanged when it does
\* not end in ".SA".
C4_SuffixStripped ==
    \A i \in 1..Len(stock_data) :
        stock_data[i].ticker =
            IF HasSuffix(tickers[i])
            THEN SubSeq(tickers[i], 1, Len(tickers[i]) - 3)
            ELSE tickers[i]

\* C10: once the fetch has completed, a call of sort_stock_data or
\* create_dataframe leaves the ticker list and the held records as they were,
\* and the table returned is the one a repeated call returns.
C10_RecordsUnchanged ==
    [][(pc = "fetched" /\ pc' = "fetched") =>
          /\ tickers' = tickers
          /\ stock_data' = stock_data
          /\ ret'.op = "create_dataframe" =>
                ret'.value = create_dataframe(stock_data', ret'.top).value]_vars

\* a truncated table has been made from records held in an order other than
\* the ranked one
C10_Witness ==
    /\ pc = "fetched"
    /\ ret.op = "create_dataframe"
    /\ Len(stock_data) >= 2
    /\ ret.top >= 1
    /\ ret.top < Len(stock_data)
    /\ sorted(stock_data) # stock_data

\* the file holds no ticker: every line is whitespace only
NoTickerInFile == \A i \in 1..Len(file.lines) : Range(file.lines[i]) \subseteq Whitespace

\* C5: a missing ticker file, a file without tickers or a failed download end
\* the run with status 1 and no renderer called; the download happens at most
\* once and only with a non-empty ticker list; a renderer is called at most
\* once, only with a record for every requested ticker, and a run that ends
\* has either rendered its table and status 0, or rendered nothing and
\* status 1.
C5_AllOrNothing ==
    /\ (~file.exists /\ pc # "start") =>
          (pc = "exited" /\ exit_code = 1 /\ renders = <<>> /\ downloads = 0)
    /\ (file.exists /\ NoTickerInFile /\ pc \notin {"start", "read"}) =>
          (pc = "exited" /\ exit_code = 1 /\ renders = <<>> /\ downloads = 0)
    /\ cause = "download failed" =>
          (pc = "exited" /\ exit_code = 1 /\ renders = <<>>)
    /\ downloads <= 1
    /\ downloads = 1 => (file.exists /\ ~NoTickerInFile /\ tickers # <<>>)
    /\ Len(renders) <= 1
    /\ renders # <<>> =>
          /\ downloads = 1
          /\ cause = "done"
          /\ Len(stock_data) = Len(tickers)
          /\ \A i \in 1..Len(tickers) :
                stock_data[i].current_price = SeriesOf(i)[Len(SeriesOf(i))]
          /\ renders[1].df = ret.value
          /\ ret.op = "create_dataframe"
    /\ pc = "exited" =>
          \/ exit_code = 0 /\ Len(renders) = 1
          \/ exit_code = 1 /\ renders = <<>>

\* a run ended by a failed download
C5_Witness ==
    /\ pc = "exited"
    /\ cause = "download failed"
    /\ downloads = 1
    /\ tickers # <<>>

\* the i-th requested ticker has a series whose lowest price is 0
ZeroLow(i) ==
    /\ tickers[i] \in DOMAIN market
    /\ 0 \in Range(SeriesOf(i))

\* C6: when the download succeeded and a requested ticker has a 52-week low
\* of 0, the run ends with a fault: no record is stored for that ticker and
\* no renderer is called.
C6_ZeroLowFaults ==
    \A i \in 1..Len(tickers) :
        (ZeroLow(i) /\ downloads = 1 /\ cause # "download failed") =>
            /\ ~Computed(i)
            /\ pc = "exited"
            /\ exit_code = 1
            /\ renders = <<>>

\* the record's price fields are the last, the largest and the smallest price
\* of the series s
PricesOf(r, s) ==
    /\ r.current_price = s[Len(s)]
    /\ r.low_52_week \in Range(s)
    /\ \A x \in Range(s) : r.low_52_week <= x
    /\ r.high_52_week \in Range(s)
    /\ \A x \in Range(s) : x <= r.high_52_week

\* the record's percentage is (current_price - low_52_week) / low_52_week * 100
\* of its own fields, for a non-zero low
PctOf(r) ==
    /\ IsFinite(r.current_pct_from_low)
    /\ r.current_pct_from_low.n * r.low_52_week =
          r.current_pct_from_low.d * (r.current_price - r.low_52_week) * 100

\* C7: every record has low_52_week <= current_price <= high_52_week, with
\* current_price the last price of its series and low and high the smallest
\* and largest price of the whole series.
C7_PriceWithinRange ==
    \A i \in 1..Len(stock_data) :
        /\ PricesOf(stock_data[i], SeriesOf(i))
        /\ stock_data[i].low_52_week <= stock_data[i].current_price
        /\ stock_data[i].current_price <= stock_data[i].high_52_week

\* a record whose current price lies strictly between its low and its high
C7_Witness ==
    /\ pc = "fetched"
    /\ \E i \in 1..Len(stock_data) :
        /\ stock_data[i].low_52_week < stock_data[i].current_price
        /\ stock_data[i].current_price < stock_data[i].high_52_week

\* the sum of s[lo..hi], counted price by price
RECURSIVE SumByPrice(_, _, _, _)
SumByPrice(s, lo, hi, v) ==
    IF v = 0 THEN 0
    ELSE v * Cardinality({k \in lo..hi : s[k] = v}) + SumByPrice(s, lo, hi, v - 1)

\* C8: with at least 200 prices the moving average is the mean of the last 200
\* of them; with fewer it is NaN, and the other fields are computed all the
\* same.
C8_MovingAverage ==
    \A i \in 1..Len(stock_data) :
        LET s == SeriesOf(i)
            r == stock_data[i]
            ma == r.moving_average_200d
        IN  IF Len(s) >= 200
            THEN /\ IsFinite(ma)
                 /\ ma.n * 200 =
                       ma.d * SumByPrice(s, Len(s) - 199, Len(s), MaxPrice)
            ELSE /\ IsNaN(ma)
                 /\ PricesOf(r, s)
                 /\ r.low_52_week # 0 => PctOf(r)

\* a series of more than 200 prices whose price just before the window
\* differs from the prices in it
C8_Witness ==
    /\ pc = "fetched"
    /\ \E i \in 1..Len(stock_data) :
        /\ Len(SeriesOf(i)) > 200
        /\ SeriesOf(i)[Len(SeriesOf(i)) - 200] > SeriesOf(i)[Len(SeriesOf(i)) - 199]
        /\ IsFinite(stock_data[i].moving_average_200d)
        /\ stock_data[i].moving_average_200d.d > 1

\* C9: for a series whose minimum is not 0 the percentage is
\* (current_price - low_52_week) / low_52_week * 100 of the record's own
\* fields; it is 0 for a constant series and never negative.
C9_PctFromLow ==
    \A i \in 1..Len(stock_data) :
        LET s == SeriesOf(i)
            r == stock_data[i]
        IN  (0 \notin Range(s)) =>
                /\ PctOf(r)
                /\ r.current_pct_from_low.n >= 0
                /\ (\A x \in Range(s) : x = s[1]) => r.current_pct_from_low = Num(0)

\* a record above its non-zero low
C9_Witness ==
    /\ pc = "fetched"
    /\ \E i \in 1..Len(stock_data) :
        /\ stock_data[i].low_52_week > 1
        /\ stock_data[i].current_price > stock_data[i].low_52_week
        /\ stock_data[i].current_pct_from_low.n > 0

====
